---- MODULE Spec2Model ----
(***************************************************************************)
(* Orders service: the Order and Item entities (service/models), their     *)
(* JSON (de)serialization, the persisted tables with the constraints the   *)
(* column declarations put on them, and the HTTP layer (service/routes.py).*)
(*                                                                         *)
(* Four specifications share the state:                                    *)
(*   Spec         the HTTP layer: every step is one request served whole;  *)
(*   ModelSpec    the entity API used directly (Order(), items.append,     *)
(*                create, update, delete, find, all);                      *)
(*   SessionSpec  the entity API with the process-wide session in view:    *)
(*                the commit of one entity writes the changes of another;  *)
(*   EntitySpec   serialize and deserialize on entities held in memory.    *)
(***************************************************************************)
EXTENDS Integers, Sequences, FiniteSets, TLC

VARIABLES
    orders,       \* table "order": set of rows [id, customer_id]
    items,        \* table "item": set of rows [id, order_id, name, quantity, unit_price]
    nextOrderId,  \* the order.id sequence of the storage engine
    nextItemId,   \* the item.id sequence of the storage engine
    response,     \* the response to the request last served
    mem,          \* ModelSpec: the in-memory Order the caller holds
    result        \* ModelSpec: what the last entity operation returned

vars == <<orders, items, nextOrderId, nextItemId, response, mem, result>>

-----------------------------------------------------------------------------
(* Bounds of the model.                                                    *)

\* how many values the order.id sequence hands out
MaxOrders == 2
\* how many values the item.id sequence hands out
MaxItemRows == 2
\* longest items list of a payload, longest in-memory items collection
MaxItems == 2

-----------------------------------------------------------------------------
(* Values.  A JSON object member, a Python attribute and a column value is *)
(* Absent (no such key), Null (JSON null, None, SQL NULL) or Val(x).       *)

Absent == [k |-> "absent"]
Null == [k |-> "null"]
Val(x) == [k |-> "val", v |-> x]

\* db.String(16) of Order.customer_id
CustomerIdLen == 16
\* db.String(64) of Item.name
NameLen == 64

LongCustomerId == "User0000000000001"
LongName == "widget-widget-widget-widget-widget-widget-widget-widget-widget-65c"

CustomerIds == {"User0001", "User0002", LongCustomerId}

-----------------------------------------------------------------------------
(* Payloads: the untyped key/value structures handed to deserialize.       *)

\* An entry of an items list: a JSON object, or something that is none ([]).
WellFormedEntry ==
    [kind |-> "dict", id |-> Absent, order_id |-> Absent, name |-> Val("widget"),
     quantity |-> Val(3), unit_price |-> Val(9)]

ItemEntries ==
    { [kind |-> "list"], WellFormedEntry,
      [WellFormedEntry EXCEPT !.id = Val(7), !.order_id = Val(9), !.name = Absent,
                              !.quantity = Val(1), !.unit_price = Val(0)],
      [WellFormedEntry EXCEPT !.name = Val(LongName)],
      [WellFormedEntry EXCEPT !.quantity = Absent],
      [WellFormedEntry EXCEPT !.quantity = Null],
      [WellFormedEntry EXCEPT !.quantity = Val(0)],
      [WellFormedEntry EXCEPT !.unit_price = Absent],
      [WellFormedEntry EXCEPT !.unit_price = Val(-1)] }

ItemLists == UNION { [1..n -> ItemEntries] : n \in 0..MaxItems }

\* A request body as request.get_json() sees it: a JSON object, a JSON array,
\* JSON null, or bytes that are no JSON at all.
DictBodies ==
    { [kind |-> "dict", customer_id |-> c, items |-> l] :
        c \in {Absent, Null} \cup {Val(x) : x \in CustomerIds},
        l \in {Absent, Null} \cup {Val(x) : x \in ItemLists} }

Bodies == DictBodies \cup {[kind |-> "list"], [kind |-> "null"], [kind |-> "malformed"]}

-----------------------------------------------------------------------------
(* Item (service/models/item.py).                                          *)

\* what a call raised: nothing, or the error kind that left it
NoError == "none"
DataValidationError == "DataValidationError"

\* Item(): every column attribute is None
NewItem ==
    [id |-> Null, order_id |-> Null, name |-> Null, quantity |-> Null, unit_price |-> Null]

\* dict.get(key): None when the key is missing
DictGet(member) == IF member = Absent THEN Null ELSE member

\* Item.serialize with the values of quantity and unit_price under each other's key
ItemSerializeSwapped(self) ==
    [id |-> self.id, name |-> self.name, order_id |-> self.order_id,
     quantity |-> self.unit_price, unit_price |-> self.quantity]

\* Item.serialize
ItemSerialize(self) ==
    [id |-> self.id, name |-> self.name, order_id |-> self.order_id,
     quantity |-> self.quantity, unit_price |-> self.unit_price]

\* Item.deserialize reading quantity with data.get: a missing quantity raises nothing
ItemDeserializeLenient(self, data) ==
    IF data.kind # "dict"
    THEN [ok |-> FALSE, raised |-> DataValidationError,
          error |-> "Invalid attribute: no attribute get", item |-> self]
    ELSE IF data.unit_price = Absent
    THEN [ok |-> FALSE, raised |-> DataValidationError,
          error |-> "Invalid Item: missing unit_price", item |-> self]
    ELSE [ok |-> TRUE, raised |-> NoError, error |-> "",
          item |-> [self EXCEPT !.order_id = DictGet(data.order_id),
                                !.name = DictGet(data.name),
                                !.quantity = DictGet(data.quantity),
                                !.unit_price = data.unit_price]]

\* Item.deserialize reading the required keys before the optional ones
ItemDeserializeRequiredFirst(self, data) ==
    IF data.kind # "dict"
    THEN [ok |-> FALSE, raised |-> DataValidationError,
          error |-> "Invalid attribute: no attribute get", item |-> self]
    ELSE IF data.quantity = Absent
    THEN [ok |-> FALSE, raised |-> DataValidationError,
          error |-> "Invalid Item: missing quantity", item |-> self]
    ELSE IF data.unit_price = Absent
    THEN [ok |-> FALSE, raised |-> DataValidationError,
          error |-> "Invalid Item: missing unit_price",
          item |-> [self EXCEPT !.quantity = data.quantity]]
    ELSE [ok |-> TRUE, raised |-> NoError, error |-> "",
          item |-> [self EXCEPT !.order_id = DictGet(data.order_id),
                                !.name = DictGet(data.name),
                                !.quantity = data.quantity,
                                !.unit_price = data.unit_price]]

\* Item.deserialize: [ok, error, item]; ok = FALSE is DataValidationError with the
\* message error, and item is the entity as the assignments made before the failing
\* statement left it.
ItemDeserialize(self, data) ==
    IF data.kind # "dict"
    THEN [ok |-> FALSE, raised |-> DataValidationError,
          error |-> "Invalid attribute: no attribute get", item |-> self]
    ELSE LET s1 == [self EXCEPT !.order_id = DictGet(data.order_id),
                                !.name = DictGet(data.name)]
         IN  IF data.quantity = Absent
             THEN [ok |-> FALSE, raised |-> DataValidationError,
                   error |-> "Invalid Item: missing quantity", item |-> s1]
             ELSE LET s2 == [s1 EXCEPT !.quantity = data.quantity]
                  IN  IF data.unit_price = Absent
                      THEN [ok |-> FALSE, raised |-> DataValidationError,
                            error |-> "Invalid Item: missing unit_price", item |-> s2]
                      ELSE [ok |-> TRUE, raised |-> NoError, error |-> "",
                            item |-> [s2 EXCEPT !.unit_price = data.unit_price]]

-----------------------------------------------------------------------------
(* Order (service/models/order.py).                                        *)

\* Order(): every column attribute is None, the collection is empty
NewOrder == [id |-> Null, customer_id |-> Null, items |-> <<>>]

\* Order.serialize
RECURSIVE SerializeItems(_)
SerializeItems(its) ==
    IF its = <<>> THEN <<>>
    ELSE <<ItemSerialize(Head(its))>> \o SerializeItems(Tail(its))

OrderSerialize(self) ==
    [id |-> self.id, customer_id |-> self.customer_id, items |-> SerializeItems(self.items)]

\* the loop of Order.deserialize putting each new Item in front of the collection
RECURSIVE AppendItemsInFront(_, _)
AppendItemsInFront(self, items_list) ==
    IF items_list = <<>>
    THEN [ok |-> TRUE, raised |-> NoError, error |-> "", order |-> self]
    ELSE LET r == ItemDeserialize(NewItem, Head(items_list))
         IN  IF ~r.ok
             THEN [ok |-> FALSE, raised |-> r.raised, error |-> r.error, order |-> self]
             ELSE AppendItemsInFront([self EXCEPT !.items = <<r.item>> \o @],
                                     Tail(items_list))

\* the loop of Order.deserialize over items_list
RECURSIVE AppendItems(_, _)
AppendItems(self, items_list) ==
    IF items_list = <<>>
    THEN [ok |-> TRUE, raised |-> NoError, error |-> "", order |-> self]
    ELSE LET r == ItemDeserialize(NewItem, Head(items_list))
         IN  IF ~r.ok
             THEN [ok |-> FALSE, raised |-> r.raised, error |-> r.error,   \* propagated
                   order |-> self]
             ELSE AppendItems([self EXCEPT !.items = Append(@, r.item)],
                              Tail(items_list))

\* Order.deserialize checking the customer_id key without assigning the attribute
OrderDeserializeNoCustomer(self, data) ==
    IF data.kind # "dict"
    THEN [ok |-> FALSE, raised |-> DataValidationError, error |-> "bad data", order |-> self]
    ELSE IF data.customer_id = Absent
    THEN [ok |-> FALSE, raised |-> DataValidationError,
          error |-> "Invalid Order: missing customer_id", order |-> self]
    ELSE IF data.items = Absent
    THEN [ok |-> TRUE, raised |-> NoError, error |-> "", order |-> self]
    ELSE IF data.items = Null
    THEN [ok |-> FALSE, raised |-> DataValidationError, error |-> "bad data", order |-> self]
    ELSE AppendItems(self, data.items.v)

\* Order.deserialize without its except TypeError clause: the TypeError of a body
\* that is no key/value structure, or of an items value that is no list, escapes
OrderDeserializeNoTypeError(self, data) ==
    IF data.kind # "dict"
    THEN [ok |-> FALSE, raised |-> "TypeError", error |-> "not subscriptable",
          order |-> self]
    ELSE IF data.customer_id = Absent
    THEN [ok |-> FALSE, raised |-> DataValidationError,
          error |-> "Invalid Order: missing customer_id", order |-> self]
    ELSE LET s1 == [self EXCEPT !.customer_id = data.customer_id]
         IN  IF data.items = Absent
             THEN [ok |-> TRUE, raised |-> NoError, error |-> "", order |-> s1]
             ELSE IF data.items = Null
             THEN [ok |-> FALSE, raised |-> "TypeError", error |-> "not iterable",
                   order |-> s1]
             ELSE AppendItems(s1, data.items.v)

\* Order.deserialize: [ok, error, order]; ok = FALSE is DataValidationError with the
\* message error, and order is the entity as the statements run before the failing
\* one left it.
BadData == "Invalid Order: body of request contained bad or no data"

OrderDeserialize(self, data) ==
    IF data.kind # "dict"
    THEN [ok |-> FALSE, raised |-> DataValidationError,                   \* TypeError
          error |-> BadData, order |-> self]
    ELSE IF data.customer_id = Absent
    THEN [ok |-> FALSE, raised |-> DataValidationError,                   \* KeyError
          error |-> "Invalid Order: missing customer_id", order |-> self]
    ELSE LET s1 == [self EXCEPT !.customer_id = data.customer_id]
         IN  IF data.items = Absent
             THEN [ok |-> TRUE, raised |-> NoError, error |-> "",         \* default []
                   order |-> s1]
             ELSE IF data.items = Null
             THEN [ok |-> FALSE, raised |-> DataValidationError,          \* TypeError
                   error |-> BadData, order |-> s1]
             ELSE AppendItems(s1, data.items.v)

-----------------------------------------------------------------------------
(* The persisted tables and what the column declarations make the storage  *)
(* engine enforce.  A row keeps id and order_id as numbers, the other      *)
(* columns as Null or Val(x).                                              *)

\* table "order": customer_id = db.Column(db.String(16), nullable=False)
OrderRowOk(row) ==
    /\ row.customer_id # Null
    /\ Len(row.customer_id.v) <= CustomerIdLen

\* table "item": quantity and unit_price are nullable columns under the CHECK
\* constraints quantity > 0 and unit_price >= 0 (a CHECK passes on NULL);
\* name = db.Column(db.String(64))
ItemRowOk(row) ==
    /\ row.quantity = Null \/ row.quantity.v > 0
    /\ row.unit_price = Null \/ row.unit_price.v >= 0
    /\ row.name = Null \/ Len(row.name.v) <= NameLen

ItemRow(it) ==
    [id |-> it.id.v, order_id |-> it.order_id.v, name |-> it.name,
     quantity |-> it.quantity, unit_price |-> it.unit_price]

\* a flush that leaves the new Items of the collection out (no save-update cascade
\* from the Order to its items)
FlushItemsParentOnly(its, oid, iid) ==
    [ok |-> TRUE, rows |-> {}, items |-> its, next |-> iid]

\* a flush that leaves an order_id the payload gave an Item as it is, and sets only
\* the missing ones
RECURSIVE FlushItemsKeepOrderId(_, _, _)
FlushItemsKeepOrderId(its, oid, iid) ==
    IF its = <<>>
    THEN [ok |-> TRUE, rows |-> {}, items |-> <<>>, next |-> iid]
    ELSE IF Head(its).id # Null
    THEN LET rest == FlushItemsKeepOrderId(Tail(its), oid, iid)
         IN  [rest EXCEPT !.items = <<Head(its)>> \o @]
    ELSE LET it == [Head(its) EXCEPT !.id = Val(iid),
                                     !.order_id = IF @ = Null THEN Val(oid) ELSE @]
         IN  IF ~ItemRowOk(ItemRow(it))
             THEN [ok |-> FALSE, rows |-> {}, items |-> <<>>, next |-> iid + 1]
             ELSE LET rest == FlushItemsKeepOrderId(Tail(its), oid, iid + 1)
                  IN  [ok |-> rest.ok,
                       rows |-> IF rest.ok THEN {ItemRow(it)} \cup rest.rows ELSE {},
                       items |-> IF rest.ok THEN <<it>> \o rest.items ELSE <<>>,
                       next |-> rest.next]

\* The flush of an Order's items collection (relationship "items", backref "order"):
\* every Item that has no row yet is inserted with the next item id and with order_id
\* set to the owning Order's id, in collection order; an Item that has a row keeps
\* it.  [ok, rows, items, next]: the rows inserted, the collection as it is after
\* the flush, the item id sequence after it.  The first row the engine rejects ends
\* the flush (ok = FALSE).
RECURSIVE FlushItems(_, _, _)
FlushItems(its, oid, iid) ==
    IF its = <<>>
    THEN [ok |-> TRUE, rows |-> {}, items |-> <<>>, next |-> iid]
    ELSE IF Head(its).id # Null
    THEN LET rest == FlushItems(Tail(its), oid, iid)
         IN  [rest EXCEPT !.items = <<Head(its)>> \o @]
    ELSE LET it == [Head(its) EXCEPT !.id = Val(iid), !.order_id = Val(oid)]
         IN  IF ~ItemRowOk(ItemRow(it))
             THEN [ok |-> FALSE, rows |-> {}, items |-> <<>>, next |-> iid + 1]
             ELSE LET rest == FlushItems(Tail(its), oid, iid + 1)
                  IN  [ok |-> rest.ok,
                       rows |-> IF rest.ok THEN {ItemRow(it)} \cup rest.rows ELSE {},
                       items |-> IF rest.ok THEN <<it>> \o rest.items ELSE <<>>,
                       next |-> rest.next]

-----------------------------------------------------------------------------
(* Persistence base (service/models/persistent_base.py).  Every operation  *)
(* returns [ok, error, order, orders, items, nextOrderId, nextItemId]:     *)
(* whether it returned (TRUE) or raised DataValidationError (FALSE) and    *)
(* with what message, the in-memory entity afterwards, and the storage     *)
(* afterwards.  A rollback puts the storage back as the transaction found  *)
(* it, the id sequences included.                                          *)

Stored(ok, error, self, os, its, noid, niid) ==
    [ok |-> ok, error |-> error, order |-> self, orders |-> os, items |-> its,
     nextOrderId |-> noid, nextItemId |-> niid]

RolledBack(error, self) ==
    Stored(FALSE, error, self, orders, items, nextOrderId, nextItemId)

\* the foreign key without ondelete="CASCADE": the item rows outlive the order row
OnDeleteNoAction(its, oid) == its

\* ForeignKey("order.id", ondelete="CASCADE") of Item.order_id: the item rows left
\* when the order row oid is deleted
OnDeleteCascade(its, oid) == {row \in its : row.order_id # oid}

\* the item rows of order oid as a sequence, in insertion (id) order
RECURSIVE RowsInOrder(_)
RowsInOrder(rows) ==
    IF rows = {} THEN <<>>
    ELSE LET first == CHOOSE r \in rows : \A q \in rows : r.id <= q.id
         IN  <<first>> \o RowsInOrder(rows \ {first})

ItemEntity(row) ==
    [id |-> Val(row.id), order_id |-> Val(row.order_id), name |-> row.name,
     quantity |-> row.quantity, unit_price |-> row.unit_price]

\* the load of the relationship "items" of the Order with id oid
RECURSIVE Entities(_)
Entities(rows) ==
    IF rows = <<>> THEN <<>>
    ELSE <<ItemEntity(Head(rows))>> \o Entities(Tail(rows))

LoadItems(oid) == Entities(RowsInOrder({row \in items : row.order_id = oid}))

OrderEntity(row) ==
    [id |-> Val(row.id), customer_id |-> row.customer_id, items |-> LoadItems(row.id)]

\* find(by_id): [found, order]; found = FALSE is the not-found sentinel None
Find(by_id) ==
    IF \E row \in orders : row.id = by_id
    THEN [found |-> TRUE, order |-> OrderEntity(CHOOSE row \in orders : row.id = by_id)]
    ELSE [found |-> FALSE, order |-> NewOrder]

\* all(): the persisted Orders, in id order
RECURSIVE OrderEntities(_)
OrderEntities(rows) ==
    IF rows = <<>> THEN <<>>
    ELSE <<OrderEntity(Head(rows))>> \o OrderEntities(Tail(rows))

All == OrderEntities(RowsInOrder(orders))

\* create() without the rollback: when the commit fails the inserted row stays and
\* the entity keeps the id it was given
CreateNoRollback(self, commit_ok) ==
    LET oid == nextOrderId
        row == [id |-> oid, customer_id |-> self.customer_id]
    IN  IF ~OrderRowOk(row)
        THEN RolledBack("order row rejected", [self EXCEPT !.id = Null])
        ELSE Stored(commit_ok, "commit failed", [self EXCEPT !.id = Val(oid)],
                    orders \cup {row}, items, oid + 1, nextItemId)

\* create(): inserts a row with a system-generated id, and the rows of the items
\* collection; on a storage failure (a rejected row, or a commit that fails:
\* commit_ok = FALSE) rolls back, and the entity keeps no id.
Create(self, commit_ok) ==
    LET oid == nextOrderId
        row == [id |-> oid, customer_id |-> self.customer_id]
        fresh == [self EXCEPT !.id = Null]
    IN  IF ~commit_ok
        THEN RolledBack("commit failed", fresh)
        ELSE IF ~OrderRowOk(row)
        THEN RolledBack("order row rejected", fresh)
        ELSE LET r == FlushItems(self.items, oid, nextItemId)
             IN  IF ~r.ok
                 THEN RolledBack("item row rejected", fresh)
                 ELSE Stored(TRUE, "", [fresh EXCEPT !.id = Val(oid), !.items = r.items],
                             orders \cup {row}, items \cup r.rows, oid + 1, r.next)

\* update(): persists the entity's changes to its row: fails when the entity has no
\* id, when no row has that id, or on a storage failure (with rollback).
Update(self, commit_ok) ==
    IF self.id = Null
    THEN RolledBack("Update called with empty ID field", self)
    ELSE IF ~\E old \in orders : old.id = self.id.v
    THEN RolledBack("no row to update", self)
    ELSE LET oid == self.id.v
             row == [id |-> oid, customer_id |-> self.customer_id]
         IN  IF ~commit_ok
             THEN RolledBack("commit failed", self)
             ELSE IF ~OrderRowOk(row)
             THEN RolledBack("order row rejected", self)
             ELSE LET r == FlushItems(self.items, oid, nextItemId)
                  IN  IF ~r.ok
                      THEN RolledBack("item row rejected", self)
                      ELSE Stored(TRUE, "", [self EXCEPT !.items = r.items],
                                  {old \in orders : old.id # oid} \cup {row},
                                  items \cup r.rows, nextOrderId, r.next)

\* delete(): removes the entity's row; fails on a storage failure (with rollback).
Delete(self, commit_ok) ==
    IF ~commit_ok
    THEN RolledBack("commit failed", self)
    ELSE IF self.id = Null
    THEN RolledBack("instance is not persisted", self)
    ELSE Stored(TRUE, "", self,
                {old \in orders : old.id # self.id.v},
                OnDeleteCascade(items, self.id.v), nextOrderId, nextItemId)

-----------------------------------------------------------------------------
(* HTTP layer (service/routes.py).                                         *)

HTTP_200_OK == 200
HTTP_201_CREATED == 201
HTTP_400_BAD_REQUEST == 400
HTTP_404_NOT_FOUND == 404
HTTP_415_UNSUPPORTED_MEDIA_TYPE == 415

JsonType == "application/json"
ContentTypes == {Absent, Val(JsonType), Val("text/html")}

\* A URL path is the sequence of its segments: <<"orders", "1">> is /orders/1.
IdSegments == {"0", "1", "2", "999999"}
Segments == IdSegments \cup {"abc"}
Paths ==
    {<<>>, <<"orders">>, <<"unknown">>}
      \cup {<<"orders", a>> : a \in Segments}
      \cup {<<"orders", a, "items", b>> : a \in Segments, b \in Segments}

\* The requests of the model.  POST /orders as JSON carries every body, and with
\* another content type every body whose items list has at most one entry; a GET
\* carries none, and a PUT one of a few (no registered view reads it).
ShortBodies ==
    {b \in Bodies : b.kind = "dict" /\ b.items.k = "val" => Len(b.items.v) <= 1}

FewBodies ==
    { [kind |-> "dict", customer_id |-> Val("User0001"), items |-> Val(<<>>)],
      [kind |-> "dict", customer_id |-> Absent, items |-> Absent] }

PostOrdersRequests ==
    [method : {"POST"}, path : {<<"orders">>}, ctype : {Val(JsonType)}, body : Bodies]
      \cup [method : {"POST"}, path : {<<"orders">>},
            ctype : ContentTypes \ {Val(JsonType)}, body : ShortBodies]

Requests ==
    PostOrdersRequests
      \cup [method : {"GET"}, path : Paths, ctype : {Val(JsonType)},
            body : {[kind |-> "malformed"]}]
      \cup [method : {"PUT"}, path : Paths, ctype : {Val(JsonType)}, body : FewBodies]

\* The views registered with @app.route: "/" (GET, the default) and "/orders" (POST).
UrlMap ==
    { [path |-> <<>>, methods |-> {"GET"}, endpoint |-> "index"],
      [path |-> <<"orders">>, methods |-> {"POST"}, endpoint |-> "create_orders"] }

\* The framework's dispatch over the registered rules: the view of the rule that
\* matches path and method; 405 when a rule matches the path only; else 404.
Dispatch(req) ==
    LET matching == {r \in UrlMap : r.path = req.path}
    IN  IF matching = {} THEN "not_found"
        ELSE IF \E r \in matching : req.method \in r.methods
        THEN (CHOOSE r \in matching : req.method \in r.methods).endpoint
        ELSE "method_not_allowed"

\* [status, body, location] and the storage after the request
Reply(status, body, location, os, its, noid, niid) ==
    [status |-> status, body |-> body, location |-> location,
     orders |-> os, items |-> its, nextOrderId |-> noid, nextItemId |-> niid]

\* abort(status, message), and the framework's own error responses
Abort(status, message) ==
    Reply(status, [kind |-> "error", message |-> message], Absent,
          orders, items, nextOrderId, nextItemId)

\* index()
Index(req) ==
    Reply(HTTP_200_OK, [kind |-> "text"], Absent, orders, items, nextOrderId, nextItemId)

\* check_content_type letting a request without the header through
CheckContentTypeHeaderOptional(req) ==
    IF req.ctype = Absent THEN TRUE
    ELSE req.ctype.v = JsonType

\* check_content_type("application/json"): TRUE when the view goes on
CheckContentType(req) ==
    IF req.ctype = Absent THEN FALSE
    ELSE req.ctype.v = JsonType

\* the application's handler of DataValidationError: a bad request
RequestValidationError(r) ==
    Reply(HTTP_400_BAD_REQUEST, [kind |-> "error", message |-> r.error], Absent,
          r.orders, r.items, r.nextOrderId, r.nextItemId)

\* create_orders()
CreateOrders(req) ==
    IF ~CheckContentType(req)
    THEN Abort(HTTP_415_UNSUPPORTED_MEDIA_TYPE, "Content-Type must be application/json")
    ELSE IF req.body.kind = "malformed"                                  \* get_json()
    THEN Abort(HTTP_400_BAD_REQUEST, "Failed to decode JSON object")
    ELSE LET d == OrderDeserialize(NewOrder, req.body)
         IN  IF ~d.ok
             THEN RequestValidationError(RolledBack(d.error, d.order))
             ELSE LET c == Create(d.order, TRUE)
                  IN  IF ~c.ok THEN RequestValidationError(c)
                      ELSE Reply(HTTP_201_CREATED,
                                 [kind |-> "order", order |-> OrderSerialize(c.order)],
                                 Val(<<"unknown">>),
                                 c.orders, c.items, c.nextOrderId, c.nextItemId)

\* One request served whole.
Serve(req) ==
    CASE Dispatch(req) = "index" -> Index(req)
      [] Dispatch(req) = "create_orders" -> CreateOrders(req)
      [] Dispatch(req) = "method_not_allowed" -> Abort(405, "Method Not Allowed")
      [] OTHER -> Abort(HTTP_404_NOT_FOUND, "Not Found")

-----------------------------------------------------------------------------
(* The HTTP specification.                                                 *)

NoResponse == [status |-> 0, body |-> [kind |-> "none"], location |-> Absent]

Init ==
    /\ orders = {}
    /\ items = {}
    /\ nextOrderId = 1
    /\ nextItemId = 1
    /\ response = NoResponse
    /\ mem = NewOrder
    /\ result = [op |-> "none", ok |-> TRUE, id |-> 0]

\* the id sequences of the model hand out MaxOrders and MaxItemRows values
WithinBounds(r) ==
    /\ r.nextOrderId <= MaxOrders + 1
    /\ r.nextItemId <= MaxItemRows + 1

Respond(req) ==
    \E r \in {Serve(req)} :
        /\ WithinBounds(r)
        /\ orders' = r.orders
        /\ items' = r.items
        /\ nextOrderId' = r.nextOrderId
        /\ nextItemId' = r.nextItemId
        /\ response' = [status |-> r.status, body |-> r.body, location |-> r.location]
        /\ UNCHANGED <<mem, result>>

RequestsTo(endpoint) == {req \in Requests : Dispatch(req) = endpoint}

GetIndex ==
    \E req \in RequestsTo("index") : Dispatch(req) = "index" /\ Respond(req)
PostOrders ==
    \E req \in RequestsTo("create_orders") :
        Dispatch(req) = "create_orders" /\ Respond(req)
NoRoute ==
    \E req \in RequestsTo("not_found") : Dispatch(req) = "not_found" /\ Respond(req)
NoMethod ==
    \E req \in RequestsTo("method_not_allowed") :
        Dispatch(req) = "method_not_allowed" /\ Respond(req)

Next == GetIndex \/ PostOrders \/ NoRoute \/ NoMethod

Spec == Init /\ [][Next]_vars

-----------------------------------------------------------------------------
(* The entity specification: a caller that holds one Order in memory and   *)
(* uses the entity API on it, as the model tests do.                       *)

\* what the caller builds Orders and Items from
ModelCustomers == {Null, Val("User0001"), Val("User0002")}
ModelEntries ==
    { WellFormedEntry,
      [WellFormedEntry EXCEPT !.id = Val(7), !.order_id = Val(9), !.name = Absent,
                              !.quantity = Val(1), !.unit_price = Val(0)],
      [WellFormedEntry EXCEPT !.quantity = Val(0)] }

Store(r) ==
    /\ WithinBounds(r)
    /\ orders' = r.orders
    /\ items' = r.items
    /\ nextOrderId' = r.nextOrderId
    /\ nextItemId' = r.nextItemId

\* order = Order(); order.customer_id = c
MakeOrder ==
    \E c \in ModelCustomers :
        /\ mem' = [NewOrder EXCEPT !.customer_id = c]
        /\ result' = [op |-> "new", ok |-> TRUE, id |-> 0]
        /\ UNCHANGED <<orders, items, nextOrderId, nextItemId, response>>

\* an append that saves by itself: the Item appended to a persisted Order gets its
\* row at once, without any create(), update() or delete()
AppendItemAutoSaved ==
    \E entry \in ModelEntries :
        LET it == ItemDeserialize(NewItem, entry).item
            saved == [it EXCEPT !.id = Val(nextItemId), !.order_id = mem.id]
        IN  /\ Len(mem.items) < MaxItems
            /\ IF mem.id # Null /\ nextItemId <= MaxItemRows
               THEN /\ mem' = [mem EXCEPT !.items = Append(@, saved)]
                    /\ items' = items \cup {ItemRow(saved)}
                    /\ nextItemId' = nextItemId + 1
               ELSE /\ mem' = [mem EXCEPT !.items = Append(@, it)]
                    /\ UNCHANGED <<items, nextItemId>>
            /\ result' = [op |-> "append", ok |-> TRUE, id |-> 0]
            /\ UNCHANGED <<orders, nextOrderId, response>>

\* order.items.append(Item().deserialize(entry))
AppendItem ==
    \E entry \in ModelEntries :
        /\ Len(mem.items) < MaxItems
        /\ mem' = [mem EXCEPT !.items = Append(@, ItemDeserialize(NewItem, entry).item)]
        /\ result' = [op |-> "append", ok |-> TRUE, id |-> 0]
        /\ UNCHANGED <<orders, items, nextOrderId, nextItemId, response>>

\* order.create(), on an Order not persisted yet
OrderCreate ==
    \E commit_ok \in BOOLEAN :
        \E r \in {Create(mem, commit_ok)} :
            /\ mem.id = Null
            /\ Store(r)
            /\ mem' = r.order
            /\ result' = [op |-> "create", ok |-> r.ok, id |-> 0]
            /\ UNCHANGED response

\* order.update()
OrderUpdate ==
    \E commit_ok \in BOOLEAN :
        \E r \in {Update(mem, commit_ok)} :
            /\ Store(r)
            /\ mem' = r.order
            /\ result' = [op |-> "update", ok |-> r.ok, id |-> 0]
            /\ UNCHANGED response

\* order.delete(), on a persisted Order; the caller lets go of the entity once it
\* is deleted
OrderDelete ==
    \E commit_ok \in BOOLEAN :
        \E r \in {Delete(mem, commit_ok)} :
            /\ mem.id # Null
            /\ \E row \in orders : row.id = mem.id.v
            /\ Store(r)
            /\ mem' = IF r.ok THEN NewOrder ELSE r.order
            /\ result' = [op |-> "delete", ok |-> r.ok, id |-> mem.id.v]
            /\ UNCHANGED response

\* order = Order.find(by_id)
OrderFind ==
    \E by_id \in 0..MaxOrders :
        /\ mem' = IF Find(by_id).found THEN Find(by_id).order ELSE mem
        /\ result' = [op |-> "find", ok |-> Find(by_id).found, id |-> by_id]
        /\ UNCHANGED <<orders, items, nextOrderId, nextItemId, response>>

ModelNext ==
    MakeOrder \/ AppendItem \/ OrderCreate \/ OrderUpdate \/ OrderDelete \/ OrderFind

ModelSpec == Init /\ [][ModelNext]_vars

-----------------------------------------------------------------------------
(* The session specification: the entity API with the process-wide session *)
(* db.session in view.  The Order the caller holds is in the session once  *)
(* it was loaded by find() or saved by create(); create(), update() and    *)
(* delete() of any entity end in db.session.commit(), which writes every   *)
(* change the session holds.  The caller holds one Order at a time, and    *)
(* lets go of it only when its changes are persisted; the other entities   *)
(* it creates and deletes are never changed in memory.                     *)

\* the Order is in the session: it has an id, and its row exists
InSession(self) ==
    IF self.id = Null THEN FALSE
    ELSE \E row \in orders : row.id = self.id.v

\* the Order is in the session with changes made in memory and not persisted
Dirty(self) ==
    IF InSession(self) THEN Find(self.id.v).order # self ELSE FALSE

\* db.session.commit() at the end of the create() or delete() of another entity,
\* with the Order held in the session: r is what the operation did by itself; the
\* flush also writes the row of held and inserts the Items appended to it.  A row
\* the tables reject fails the whole commit.
CommitSession(r, held) ==
    IF ~r.ok \/ ~InSession(held)
    THEN [ok |-> r.ok, orders |-> r.orders, items |-> r.items,
          nextOrderId |-> r.nextOrderId, nextItemId |-> r.nextItemId, held |-> held]
    ELSE LET oid == held.id.v
             row == [id |-> oid, customer_id |-> held.customer_id]
             f == FlushItems(held.items, oid, r.nextItemId)
         IN  IF ~OrderRowOk(row) \/ ~f.ok
             THEN [ok |-> FALSE, orders |-> orders, items |-> items,
                   nextOrderId |-> nextOrderId, nextItemId |-> nextItemId,
                   held |-> held]
             ELSE [ok |-> TRUE,
                   orders |-> {old \in r.orders : old.id # oid} \cup {row},
                   items |-> r.items \cup f.rows,
                   nextOrderId |-> r.nextOrderId, nextItemId |-> f.next,
                   held |-> [held EXCEPT !.items = f.items]]

\* the held Order after a commit: as flushed; after a rollback, which expires every
\* entity of the session, as it is in memory or as a reload from its row makes it
AfterCommit(r) ==
    IF r.ok THEN {r.held} ELSE {mem, Find(mem.id.v).order}

\* order = Order.find(by_id)
SessionFind ==
    \E by_id \in 1..MaxOrders :
        /\ ~Dirty(mem)
        /\ Find(by_id).found
        /\ mem' = Find(by_id).order
        /\ result' = [op |-> "find", ok |-> TRUE, id |-> by_id]
        /\ UNCHANGED <<orders, items, nextOrderId, nextItemId, response>>

\* order.customer_id = c, on an Order of the session
SetCustomerId ==
    \E c \in ModelCustomers :
        /\ InSession(mem)
        /\ mem' = [mem EXCEPT !.customer_id = c]
        /\ result' = [op |-> "set", ok |-> TRUE, id |-> 0]
        /\ UNCHANGED <<orders, items, nextOrderId, nextItemId, response>>

\* other = Order(); other.customer_id = c; other.create(), while an Order of the
\* session is held
CreateOther ==
    \E c \in ModelCustomers, commit_ok \in BOOLEAN :
        \E r \in {CommitSession(Create([NewOrder EXCEPT !.customer_id = c], commit_ok),
                                mem)} :
            /\ InSession(mem)
            /\ Store(r)
            /\ mem' \in AfterCommit(r)
            /\ result' = [op |-> "create_other", ok |-> r.ok, id |-> nextOrderId,
                          flushed |-> Dirty(mem)]
            /\ UNCHANGED response

\* Order.find(row.id).delete(), of another Order than the one held
DeleteOther ==
    \E row \in orders, commit_ok \in BOOLEAN :
        \E r \in {CommitSession(Delete(OrderEntity(row), commit_ok), mem)} :
            /\ InSession(mem)
            /\ row.id # mem.id.v
            /\ Store(r)
            /\ mem' \in AfterCommit(r)
            /\ result' = [op |-> "delete_other", ok |-> r.ok, id |-> row.id,
                          flushed |-> Dirty(mem)]
            /\ UNCHANGED response

\* order = Order(), once the changes to the Order held are persisted
SessionMakeOrder ==
    /\ ~Dirty(mem)
    /\ MakeOrder

SessionNext ==
    \/ SessionMakeOrder
    \/ AppendItem
    \/ SetCustomerId
    \/ OrderCreate
    \/ OrderUpdate
    \/ OrderDelete
    \/ SessionFind
    \/ CreateOther
    \/ DeleteOther

SessionSpec == Init /\ [][SessionNext]_vars

-----------------------------------------------------------------------------
(* The (de)serialization specification: a caller that holds one Order,     *)
(* built as the factories of the tests build it, and calls serialize and   *)
(* deserialize on it and on its Items.  Nothing is persisted.              *)

\* the Items the caller makes: Item(), and Items as ItemFactory hands them out (with
\* an id, and with the order_id None or as a load left it)
HeldItems ==
    { NewItem,
      [id |-> Val(1), order_id |-> Val(1), name |-> Val("gadget"),
       quantity |-> Val(5), unit_price |-> Val(2)],
      [id |-> Val(2), order_id |-> Null, name |-> Null,
       quantity |-> Val(1), unit_price |-> Val(0)] }

\* the payloads the caller deserializes
EntityEntries ==
    { [kind |-> "list"], WellFormedEntry,
      [WellFormedEntry EXCEPT !.id = Val(7), !.order_id = Val(9), !.name = Absent,
                              !.quantity = Val(1), !.unit_price = Val(0)],
      [WellFormedEntry EXCEPT !.quantity = Absent],
      [WellFormedEntry EXCEPT !.quantity = Null, !.unit_price = Absent] }

EntityLists == UNION { [1..n -> EntityEntries] : n \in 0..MaxItems }

EntityBodies ==
    { [kind |-> "dict", customer_id |-> c, items |-> l] :
        c \in {Absent, Null, Val("User0001"), Val("User0002")},
        l \in {Absent, Null} \cup {Val(x) : x \in EntityLists} }
      \cup {[kind |-> "list"], [kind |-> "null"]}

\* the dict Item.serialize returns, as a payload
ItemDict(d) ==
    [kind |-> "dict", id |-> d.id, order_id |-> d.order_id, name |-> d.name,
     quantity |-> d.quantity, unit_price |-> d.unit_price]

\* the dict Order.serialize returns, as a payload
OrderDict(d) ==
    [kind |-> "dict", id |-> d.id, customer_id |-> d.customer_id,
     items |-> Val([i \in 1..Len(d.items) |-> ItemDict(d.items[i])])]

\* the entries of a payload's items list: data.get("items", [])
ItemsList(data) == IF data.items = Absent THEN <<>> ELSE data.items.v

Unpersisted == UNCHANGED <<orders, items, nextOrderId, nextItemId, response>>

\* order = OrderFactory(), order = Order()
FactoryOrder ==
    \E i \in {Null, Val(1)}, c \in ModelCustomers :
        /\ mem' = [id |-> i, customer_id |-> c, items |-> <<>>]
        /\ result' = [op |-> "factory", ok |-> TRUE, id |-> 0, changed |-> TRUE]
        /\ Unpersisted

\* order.items.append(ItemFactory())
FactoryItem ==
    \E it \in HeldItems :
        /\ Len(mem.items) < MaxItems
        /\ mem' = [mem EXCEPT !.items = Append(@, it)]
        /\ result' = [op |-> "append", ok |-> TRUE, id |-> Len(mem.items) + 1,
                      changed |-> TRUE]
        /\ Unpersisted

\* order.items[i].deserialize(data)
ItemDeserializeCall ==
    \E i \in 1..Len(mem.items), data \in EntityEntries :
        \E r \in {ItemDeserialize(mem.items[i], data)} :
            /\ mem' = [mem EXCEPT !.items[i] = r.item]
            /\ result' = [op |-> "item_deserialize", ok |-> r.ok, id |-> i,
                          changed |-> (r.item # mem.items[i])]
            /\ Unpersisted

\* order.deserialize(data)
OrderDeserializeCall ==
    \E data \in EntityBodies :
        \E r \in {OrderDeserialize(mem, data)} :
            /\ Len(r.order.items) <= MaxItems
            /\ mem' = r.order
            /\ result' = [op |-> "order_deserialize", ok |-> r.ok, id |-> 0,
                          changed |-> (r.order # mem)]
            /\ Unpersisted

\* new_item = Item(); new_item.deserialize(order.items[i].serialize())
ItemRoundTrip ==
    \E i \in 1..Len(mem.items) :
        \E r \in {ItemDeserialize(NewItem, ItemDict(ItemSerialize(mem.items[i])))} :
            /\ result' = [op |-> "item_round_trip", ok |-> r.ok, id |-> i,
                          changed |-> (r.item # mem.items[i])]
            /\ UNCHANGED mem
            /\ Unpersisted

\* new_order = Order(); new_order.deserialize(order.serialize())
OrderRoundTrip ==
    \E r \in {OrderDeserialize(NewOrder, OrderDict(OrderSerialize(mem)))} :
        /\ result' = [op |-> "order_round_trip", ok |-> r.ok, id |-> 0,
                      changed |-> (r.order # mem)]
        /\ UNCHANGED mem
        /\ Unpersisted

EntityNext ==
    FactoryOrder \/ FactoryItem \/ ItemDeserializeCall \/ OrderDeserializeCall
      \/ ItemRoundTrip \/ OrderRoundTrip

EntitySpec == Init /\ [][EntityNext]_vars

-----------------------------------------------------------------------------
(* Properties of the HTTP layer (checked under Spec).                      *)

Ids(rows) == {row.id : row \in rows}

SegInt(seg) ==
    CASE seg = "0" -> 0
      [] seg = "1" -> 1
      [] seg = "2" -> 2
      [] seg = "999999" -> 999999

Get(path) ==
    [method |-> "GET", path |-> path, ctype |-> Val(JsonType),
     body |-> [kind |-> "malformed"]]

\* an items entry that carries quantity and unit_price, with values the item table
\* accepts
EntryAccepted(e) ==
    /\ e.kind = "dict"
    /\ e.quantity # Absent /\ (e.quantity = Null \/ e.quantity.v > 0)
    /\ e.unit_price # Absent /\ (e.unit_price = Null \/ e.unit_price.v >= 0)
    /\ e.name.k = "val" => Len(e.name.v) <= NameLen

ItemsAccepted(l) ==
    /\ l.k = "val"
    /\ \A i \in 1..Len(l.v) : EntryAccepted(l.v[i])

\* the request is answered 201 with its customer_id, and exactly one Order, with an
\* id no persisted Order has, is persisted by it
Created(req) ==
    LET r == Serve(req)
    IN  /\ r.status = HTTP_201_CREATED
        /\ r.body.kind = "order"
        /\ r.body.order.customer_id = req.body.customer_id
        /\ \E row \in r.orders :
              /\ row.id \notin Ids(orders)
              /\ r.orders = orders \cup {row}
              /\ r.body.order.id = Val(row.id)
              /\ row.customer_id = req.body.customer_id
              /\ \A it \in r.items \ items : it.order_id = row.id

\* C1 as stated: every POST /orders with Content-Type application/json whose body is
\* a key/value structure containing customer_id and an items list of accepted
\* entries is answered 201 with the request's customer_id, and persists exactly one
\* new Order under a fresh system-generated id.
C1_AnyCustomerIdCreates ==
    \A req \in PostOrdersRequests :
        ( /\ req.ctype = Val(JsonType)
          /\ req.body.kind = "dict"
          /\ req.body.customer_id # Absent
          /\ ItemsAccepted(req.body.items) ) => Created(req)

\* C1 amended: the same, for a body whose customer_id is a string (not null) of at
\* most 16 characters.
C1_ValidPostCreates ==
    \A req \in PostOrdersRequests :
        ( /\ req.ctype = Val(JsonType)
          /\ req.body.kind = "dict"
          /\ req.body.customer_id.k = "val"
          /\ Len(req.body.customer_id.v) <= CustomerIdLen
          /\ ItemsAccepted(req.body.items) ) => Created(req)

\* a second Order was just created by a POST that carried an item
C1_Witness ==
    /\ response.status = HTTP_201_CREATED
    /\ Cardinality(orders) = 2
    /\ Len(response.body.order.items) >= 1

\* C2: POST /orders without Content-Type application/json is answered 415 whatever
\* the body (415 comes before any parsing of the body), and persists nothing.
C2_WrongContentType415 ==
    \A req \in PostOrdersRequests :
        req.ctype # Val(JsonType) =>
            LET r == Serve(req)
            IN  /\ r.status = HTTP_415_UNSUPPORTED_MEDIA_TYPE
                /\ r.orders = orders
                /\ r.items = items

\* a 415 was answered by a service that holds Orders
C2_Witness ==
    /\ response.status = HTTP_415_UNSUPPORTED_MEDIA_TYPE
    /\ orders # {}

\* the bodies C3 lists: {} or customer_id missing, no key/value structure, an items
\* entry missing quantity or unit_price
FailsValidation(body) ==
    \/ body.kind # "dict"
    \/ /\ body.kind = "dict"
       /\ \/ body.customer_id = Absent
          \/ /\ body.items.k = "val"
             /\ \E i \in 1..Len(body.items.v) :
                   LET e == body.items.v[i]
                   IN  e.kind = "dict" /\ (e.quantity = Absent \/ e.unit_price = Absent)

\* C3: POST /orders as application/json with a body that fails validation is
\* answered 400 and leaves the persisted Orders and Items as they were.
C3_InvalidBody400 ==
    \A req \in PostOrdersRequests :
        (req.ctype = Val(JsonType) /\ FailsValidation(req.body)) =>
            LET r == Serve(req)
            IN  /\ r.status = HTTP_400_BAD_REQUEST
                /\ r.orders = orders
                /\ r.items = items

\* an items entry without quantity was answered 400 by a service that holds Orders
C3_Witness ==
    /\ response.status = HTTP_400_BAD_REQUEST
    /\ response.body.message = "Invalid Item: missing quantity"
    /\ orders # {}


\* C4: GET /orders/{id} is answered 200 with the serialized Order when an Order with
\* that id is persisted, and 404 when none is.
C4_GetOrderById ==
    \A seg \in IdSegments :
        LET r == Serve(Get(<<"orders", seg>>))
            f == Find(SegInt(seg))
        IN  IF f.found
            THEN /\ r.status = HTTP_200_OK
                 /\ r.body = [kind |-> "order", order |-> OrderSerialize(f.order)]
            ELSE r.status = HTTP_404_NOT_FOUND

\* C5: after a successful POST /orders, a GET on the Location of the 201 response is
\* answered 200 with a serialized Order that has the posted customer_id.
C5_LocationRetrievesOrder ==
    response.status = HTTP_201_CREATED =>
        LET r == Serve(Get(response.location.v))
        IN  /\ r.status = HTTP_200_OK
            /\ r.body.kind = "order"
            /\ r.body.order.customer_id = response.body.order.customer_id

\* C6: GET /orders/{order_id}/items/{item_id} is answered 200 with the serialized Item
\* exactly when the Order exists, the Item exists and the Item's order_id is
\* order_id; otherwise, with integer ids, 404.
C6_GetOrderItem ==
    \A a \in IdSegments, b \in IdSegments :
        LET r == Serve(Get(<<"orders", a, "items", b>>))
            owned == {row \in items : row.id = SegInt(b) /\ row.order_id = SegInt(a)}
        IN  IF SegInt(a) \in Ids(orders) /\ owned # {}
            THEN /\ r.status = HTTP_200_OK
                 /\ \E row \in owned :
                       r.body = [kind |-> "item", item |-> ItemSerialize(ItemEntity(row))]
            ELSE r.status = HTTP_404_NOT_FOUND

\* C7: PUT /orders/{id} is answered 404 and persists nothing when no Order has that
\* id, whatever the payload; when the Order exists it is answered 200 with the
\* serialized Order, whose id is the id of the URL.
C7_PutOrder ==
    \A req \in Requests :
        (req.method = "PUT" /\ Len(req.path) = 2 /\ req.path[1] = "orders"
           /\ req.path[2] \in IdSegments) =>
            LET r == Serve(req)
            IN  IF SegInt(req.path[2]) \in Ids(orders)
                THEN /\ r.status = HTTP_200_OK
                     /\ r.body.kind = "order"
                     /\ r.body.order.id = Val(SegInt(req.path[2]))
                ELSE /\ r.status = HTTP_404_NOT_FOUND
                     /\ r.orders = orders
                     /\ r.items = items

\* C8: a GET on /orders/{id} or /orders/{order_id}/items/{item_id} with an order id
\* or item id segment that is no integer is answered 400, whatever is persisted.
C8_NonIntegerId400 ==
    /\ \A a \in Segments \ IdSegments :
          Serve(Get(<<"orders", a>>)).status = HTTP_400_BAD_REQUEST
    /\ \A a \in Segments, b \in Segments :
          (a \notin IdSegments \/ b \notin IdSegments) =>
              Serve(Get(<<"orders", a, "items", b>>)).status = HTTP_400_BAD_REQUEST

-----------------------------------------------------------------------------
(* Properties of the entities (checked under ModelSpec).                   *)

\* the ids Order.find answers with an entity
Findable == {by_id \in 0..nextOrderId : Find(by_id).found}

C10_FindReturnsSaved ==
    /\ [](( result.op \in {"create", "update"} /\ result.ok ) =>
            /\ mem.id # Null
            /\ Find(mem.id.v) = [found |-> TRUE, order |-> mem])
    /\ [][ (result'.op = "create" /\ result'.ok) =>
            /\ Len(All') = Len(All) + 1
            /\ \E i \in 1..Len(All') : All'[i] = mem' ]_vars

\* an update() that appended a second Item to a persisted Order has succeeded
C10_Witness ==
    /\ result.op = "update" /\ result.ok
    /\ Len(mem.items) = 2
    /\ mem.items[2].id = Val(2)
    /\ mem.items[1].name # mem.items[2].name

-----------------------------------------------------------------------------
(* Properties of serialize and deserialize (checked under EntitySpec).     *)

\* an items entry that carries the keys Item.deserialize requires
EntryComplete(e) ==
    IF e.kind # "dict" THEN FALSE
    ELSE e.quantity # Absent /\ e.unit_price # Absent

\* the Item a fresh Item becomes when it is populated from a complete entry
ItemOf(e) ==
    [id |-> Null, order_id |-> DictGet(e.order_id), name |-> DictGet(e.name),
     quantity |-> e.quantity, unit_price |-> e.unit_price]

\* C11: deserializing i.serialize() into a fresh Item succeeds and yields the name,
\* quantity and unit_price of i, for every Item i the Order holds; the fresh Item's
\* id stays None although the payload carries one, and no deserialize call changes
\* the id of the Item it is called on.
C11_ItemRoundTrip ==
    \A i \in 1..Len(mem.items) :
        LET it == mem.items[i]
            r == ItemDeserialize(NewItem, ItemDict(ItemSerialize(it)))
        IN  /\ r.ok
            /\ r.item.name = it.name
            /\ r.item.quantity = it.quantity
            /\ r.item.unit_price = it.unit_price
            /\ r.item.id = Null
            /\ \A data \in EntityEntries : ItemDeserialize(it, data).item.id = it.id

\* an Item that has an id, a name and a quantity other than its unit_price went
\* through the round trip
C11_Witness ==
    /\ result.op = "item_round_trip" /\ result.ok
    /\ mem.items[result.id].id # Null
    /\ mem.items[result.id].name # Null
    /\ mem.items[result.id].quantity # mem.items[result.id].unit_price

\* what Item.deserialize(data) on self raises: DataValidationError exactly when data
\* is no key/value structure or lacks quantity or unit_price, and nothing else
ItemDeserializeRaises(self, data) ==
    LET r == ItemDeserialize(self, data)
    IN  /\ r.raised \in {NoError, DataValidationError}
        /\ ~EntryComplete(data) => (~r.ok /\ r.raised = DataValidationError)
        /\ EntryComplete(data) => (r.ok /\ r.raised = NoError /\ r.item.id = self.id)

\* the failures of Order.deserialize that C12 names
OrderFailureNamed(data) ==
    IF data.kind # "dict" THEN TRUE
    ELSE \/ data.customer_id = Absent
         \/ /\ data.items.k = "val"
            /\ \E i \in 1..Len(data.items.v) : ~EntryComplete(data.items.v[i])

\* the same for Order.deserialize, on the failures C12 names
OrderDeserializeRaises(self, data) ==
    LET r == OrderDeserialize(self, data)
    IN  /\ r.raised \in {NoError, DataValidationError}
        /\ OrderFailureNamed(data) => (~r.ok /\ r.raised = DataValidationError)

\* C12 as stated: Item.deserialize and Order.deserialize raise DataValidationError on
\* the failures named and no other error kind, and succeed, returning the entity,
\* whenever the required keys are present (customer_id; quantity and unit_price of
\* every entry of items).
C12_RequiredKeysSucceed ==
    /\ \A data \in EntityEntries :
          /\ ItemDeserializeRaises(NewItem, data)
          /\ \A i \in 1..Len(mem.items) : ItemDeserializeRaises(mem.items[i], data)
    /\ \A data \in EntityBodies :
          /\ OrderDeserializeRaises(mem, data)
          /\ ~OrderFailureNamed(data) =>
                LET r == OrderDeserialize(mem, data)
                IN  r.ok /\ r.raised = NoError /\ r.order.id = mem.id

\* C12 amended: the same, where Order.deserialize succeeds when the required keys
\* are present and items is missing or a list, and raises DataValidationError when
\* items is null.
C12_DeserializeRaises ==
    /\ \A data \in EntityEntries :
          /\ ItemDeserializeRaises(NewItem, data)
          /\ \A i \in 1..Len(mem.items) : ItemDeserializeRaises(mem.items[i], data)
    /\ \A data \in EntityBodies :
          /\ OrderDeserializeRaises(mem, data)
          /\ ~OrderFailureNamed(data) =>
                LET r == OrderDeserialize(mem, data)
                IN  IF data.items = Null
                    THEN ~r.ok /\ r.raised = DataValidationError
                    ELSE r.ok /\ r.raised = NoError /\ r.order.id = mem.id

\* Order.deserialize has failed on an Order that holds an Item
C12_Witness ==
    /\ result.op = "order_deserialize" /\ ~result.ok
    /\ ~result.changed
    /\ mem.items # <<>>

\* C17: a successful Order.deserialize(data) on an Order that holds n Items leaves
\* those n in place and in order and appends one new Item per entry of data's items
\* list after them, in payload order (none when the key is missing), so serialize()
\* then lists n + len(items) Items; and deserializing order.serialize() into a fresh
\* Order yields the customer_id and, in the same order, as many Items with the same
\* name, quantity and unit_price.
C17_DeserializeAppends ==
    /\ \A data \in EntityBodies :
          LET r == OrderDeserialize(mem, data)
              n == Len(mem.items)
          IN  r.ok =>
                /\ Len(r.order.items) = n + Len(ItemsList(data))
                /\ \A j \in 1..n : r.order.items[j] = mem.items[j]
                /\ \A j \in 1..Len(ItemsList(data)) :
                      r.order.items[n + j] = ItemOf(ItemsList(data)[j])
                /\ Len(OrderSerialize(r.order).items) = n + Len(ItemsList(data))
    /\ LET r == OrderDeserialize(NewOrder, OrderDict(OrderSerialize(mem)))
       IN  /\ r.ok
           /\ r.order.customer_id = mem.customer_id
           /\ Len(r.order.items) = Len(mem.items)
           /\ \A j \in 1..Len(mem.items) :
                 /\ r.order.items[j].name = mem.items[j].name
                 /\ r.order.items[j].quantity = mem.items[j].quantity
                 /\ r.order.items[j].unit_price = mem.items[j].unit_price

\* Order.deserialize has appended an Item of the payload behind an Item the Order
\* held
C17_Witness ==
    /\ result.op = "order_deserialize" /\ result.ok
    /\ Len(mem.items) = 2
    /\ mem.items[1].id # Null
    /\ mem.items[2] = ItemOf(WellFormedEntry)

\* C18 as stated: a deserialize call that fails leaves the entity as it was: the
\* Order its customer_id and items, the Item its order_id, name, quantity and
\* unit_price.
C18_FailedDeserializeChangesNothing ==
    /\ \A data \in EntityBodies :
          LET r == OrderDeserialize(mem, data)
          IN  ~r.ok => r.order = mem
    /\ \A i \in 1..Len(mem.items), data \in EntityEntries :
          LET r == ItemDeserialize(mem.items[i], data)
          IN  ~r.ok => r.item = mem.items[i]

\* the first entry of an items list that is not complete
FirstIncomplete(l) ==
    CHOOSE k \in 1..Len(l) :
        ~EntryComplete(l[k]) /\ \A j \in 1..(k - 1) : EntryComplete(l[j])

\* C18 amended: a failed deserialize leaves the entity as it was when it fails before
\* its first assignment (data no key/value structure; for the Order also customer_id
\* missing).  Otherwise what was assigned before the failing statement stays: the
\* Order has the payload's customer_id and, appended, the Items of the entries before
\* the failing one; the Item has the payload's order_id and name, and its quantity
\* when unit_price is the key missing.  The id is never changed.
C18_FailedDeserializeKeepsAssigned ==
    /\ \A data \in EntityBodies :
          LET r == OrderDeserialize(mem, data)
          IN  ~r.ok =>
                IF data.kind # "dict" THEN r.order = mem
                ELSE IF data.customer_id = Absent THEN r.order = mem
                ELSE /\ r.order.id = mem.id
                     /\ r.order.customer_id = data.customer_id
                     /\ IF data.items = Null THEN r.order.items = mem.items
                        ELSE LET l == data.items.v
                                 k == FirstIncomplete(l)
                             IN  /\ Len(r.order.items) = Len(mem.items) + k - 1
                                 /\ \A j \in 1..Len(mem.items) :
                                       r.order.items[j] = mem.items[j]
                                 /\ \A j \in 1..(k - 1) :
                                       r.order.items[Len(mem.items) + j] = ItemOf(l[j])
    /\ \A i \in 1..Len(mem.items), data \in EntityEntries :
          LET self == mem.items[i]
              r == ItemDeserialize(self, data)
          IN  ~r.ok =>
                IF data.kind # "dict" THEN r.item = self
                ELSE /\ r.item.id = self.id
                     /\ r.item.order_id = DictGet(data.order_id)
                     /\ r.item.name = DictGet(data.name)
                     /\ r.item.quantity =
                           IF data.quantity = Absent THEN self.quantity ELSE data.quantity
                     /\ r.item.unit_price = self.unit_price

\* an Order.deserialize that failed on its second entry has left the Item of the
\* first entry appended
C18_Witness ==
    /\ result.op = "order_deserialize" /\ ~result.ok
    /\ result.changed
    /\ Len(mem.items) >= 1
    /\ mem.items[Len(mem.items)] = ItemOf(WellFormedEntry)

-----------------------------------------------------------------------------
(* Properties of the persisted state.                                      *)

\* C13 (under Spec): every stored Item has a quantity that is present and > 0 and a
\* unit_price that is present and >= 0: no request stores an Item with a quantity
\* <= 0, a unit_price < 0, or a null quantity or unit_price.
C13_StoredItemsValid ==
    \A row \in items :
        /\ row.quantity # Null
        /\ row.quantity.v > 0
        /\ row.unit_price # Null
        /\ row.unit_price.v >= 0

\* C14 (under ModelSpec): a create() or delete() of an Order that fails at the
\* storage (DataValidationError) leaves the persisted Orders and Items as they were
\* before the call, and after a failed create() the Order in memory has no id.
C14_FailureRollsBack ==
    [][ (result'.op \in {"create", "delete"} /\ ~result'.ok) =>
            /\ orders' = orders
            /\ items' = items
            /\ result'.op = "create" => mem'.id = Null ]_vars

\* the commit of a create() has failed, for an Order that the tables, which hold
\* Orders already, would have accepted
C14_Witness ==
    /\ result.op = "create" /\ ~result.ok
    /\ mem.customer_id # Null
    /\ mem.items = <<>>
    /\ orders # {}

\* C16 (under Spec): every stored Item's order_id is the id of exactly one stored
\* Order, whose items contain the Item, and no two Items share an id; every Item of a
\* 201 response has a system-generated id, not null, and the id of the created Order
\* as order_id, whatever id and order_id its payload entry carried, and is stored so.
C16_ItemsBelongToOneOrder ==
    /\ \A row \in items :
          /\ Cardinality({o \in orders : o.id = row.order_id}) = 1
          /\ \E j \in 1..Len(LoadItems(row.order_id)) :
                LoadItems(row.order_id)[j] = ItemEntity(row)
          /\ \A other \in items : other.id = row.id => other = row
    /\ response.status = HTTP_201_CREATED =>
          \A j \in 1..Len(response.body.order.items) :
              LET it == response.body.order.items[j]
              IN  /\ it.id # Null
                  /\ it.id.v \in 1..(nextItemId - 1)
                  /\ it.order_id = response.body.order.id
                  /\ [id |-> it.id.v, order_id |-> response.body.order.id.v,
                      name |-> it.name, quantity |-> it.quantity,
                      unit_price |-> it.unit_price] \in items

\* the second Order was created with an Item whose payload entry said order_id 9 and
\* id 7
C16_Witness ==
    /\ response.status = HTTP_201_CREATED
    /\ response.body.order.id = Val(2)
    /\ Len(response.body.order.items) = 1
    /\ response.body.order.items[1].quantity = Val(1)

-----------------------------------------------------------------------------
(* Properties of the session (checked under SessionSpec).                  *)

\* the rows that make up the persisted Order oid
RowsOf(os, its, oid) ==
    <<{o \in os : o.id = oid}, {it \in its : it.order_id = oid}>>

\* C15 as stated: no change is saved by itself, and the commit that create() or
\* delete() of another, unrelated entity performs never persists a field change or
\* an appended Item made in memory on an Order obtained by find().
C15_OtherCommitNeverPersists ==
    [][ /\ (orders' # orders \/ items' # items) =>
              result'.op \in {"create", "update", "delete", "create_other",
                              "delete_other"}
        /\ result'.op \in {"create_other", "delete_other"} =>
              RowsOf(orders', items', mem.id.v) = RowsOf(orders, items, mem.id.v)
      ]_vars

\* C15 amended: a field change or an appended Item made in memory becomes part of the
\* persisted state only when a create(), update() or delete() commits, on that
\* Order or on any other entity: once the create() or delete() of another entity
\* has succeeded, the Order held is persisted as it is in memory.
C15_PersistedOnlyByCommit ==
    /\ [][ (orders' # orders \/ items' # items) =>
              /\ result'.op \in {"create", "update", "delete", "create_other",
                                 "delete_other"}
              /\ result'.ok ]_vars
    /\ []( (result.op \in {"create_other", "delete_other"} /\ result.ok) =>
              /\ mem.id # Null
              /\ Find(mem.id.v) = [found |-> TRUE, order |-> mem] )

\* the create() of another Order has succeeded while the Order held had an Item
\* appended in memory and not saved
C15_Witness ==
    /\ result.op = "create_other" /\ result.ok
    /\ result.flushed
    /\ Len(mem.items) >= 1
    /\ mem.items[Len(mem.items)].id = Val(nextItemId - 1)
====
